---- MODULE Spec2Model ----
(***************************************************************************)
(* intrusive_ptr<T> and intrusive_ref_counter<T> (src/intrusive_ptr.h).    *)
(*                                                                         *)
(* The program state is the set of handle objects (their ptr field), the   *)
(* counted objects (their ref_count field and whether delete has run on    *)
(* them) and, for the concurrent specification, each thread's position in  *)
(* intrusive_ptr_release.  Every member function is an operator from a     *)
(* state record to a state record, composed exactly as the source composes *)
(* it (operator= is construct-a-temporary, swap, destroy-the-temporary).   *)
(*                                                                         *)
(*   Spec    one thread; every action is one whole member function.        *)
(*   SpecMT  several threads, each working on its own handles; the steps   *)
(*           of intrusive_ptr_release (fetch_sub, the re-read through      *)
(*           use_count(), delete) interleave.                              *)
(*   SpecCounter  the counting protocol used directly on raw addresses,    *)
(*           and counted objects copy-constructed from one another.        *)
(***************************************************************************)
EXTENDS Integers, FiniteSets, Sequences

\* ------------------------------------------------------------- bounds
NHandles == 3
NObjs == 2
NThreads == 2
MaxDetached == 1
\* SpecCounter: the most units a raw-pointer caller takes on one object; above
\* UIntMod, so that the counter passes the width of unsigned int.
MaxCount == 17

\* Widths of unsigned int (use_count's cast) and size_t (ref_count), scaled
\* down: TLC's integers are 32 bits wide.  What the model keeps is that
\* size_t is wider than unsigned int and that both wrap.
UIntMod == 16
SizeMod == 256

NULL == 0
Addr == 1 .. NObjs
Handles == 1 .. NHandles
\* The unnamed temporary that operator= and reset construct and destroy.
Tmp == 0
Slots == Handles \cup {Tmp}
Threads == 1 .. NThreads
\* What a build can do on undefined behaviour that corrupts memory: the
\* process is killed ("fault"), or it runs on ("benign").
UB == {"fault", "benign"}

VARIABLES
    ptr,        \* intrusive_ptr::ptr of every handle slot
    alive,      \* whether the handle object in the slot is constructed
    ref_count,  \* intrusive_ref_counter::ref_count of every object
    deleted,    \* how many times delete has run on the object
    detached,   \* units the caller holds through a raw address (from detach()
                \* or its own intrusive_ptr_add_ref), not yet adopted or released
    constructed, \* whether the counted object at the address is constructed
    nullOp,     \* a counting operation was applied to the null address
    uaf,        \* a counting operation touched the counter of a deleted object
    crashed,    \* the process was killed by a memory fault
    pc,         \* SpecMT: each thread's position in intrusive_ptr_release
    arg         \* SpecMT: the address p of the release a thread is in

vars == <<ptr, alive, ref_count, deleted, detached, constructed, nullOp, uaf,
          crashed, pc, arg>>

Cur ==
    [ptr |-> ptr, alive |-> alive, ref_count |-> ref_count, deleted |-> deleted,
     detached |-> detached, constructed |-> constructed, nullOp |-> nullOp,
     uaf |-> uaf, crashed |-> crashed]

Apply(S) ==
    /\ ptr' = S.ptr
    /\ alive' = S.alive
    /\ ref_count' = S.ref_count
    /\ deleted' = S.deleted
    /\ detached' = S.detached
    /\ constructed' = S.constructed
    /\ nullOp' = S.nullOp
    /\ uaf' = S.uaf
    /\ crashed' = S.crashed

\* ------------------------------------------- counting protocol (160-199)

\* Mutant: the check reads the value fetch_sub returned (before the subtract).
use_count_before_sub(S, p) == (S.ref_count[p] + 1) % UIntMod

\* unsigned int use_count(): the size_t counter cast to unsigned int.
use_count(S, p) == S.ref_count[p] % UIntMod

\* p->ref_count.fetch_add(1); on the null address it is a wild write.
intrusive_ptr_add_ref(S, p, ub) ==
    IF p = NULL
    THEN [S EXCEPT !.nullOp = TRUE, !.crashed = (ub = "fault")]
    ELSE [S EXCEPT !.ref_count[p] = (@ + 1) % SizeMod,
                   !.uaf = @ \/ S.deleted[p] > 0]

\* p->ref_count.fetch_sub(1), the first statement of intrusive_ptr_release.
fetch_sub(S, p) ==
    [S EXCEPT !.ref_count[p] = (@ + SizeMod - 1) % SizeMod,
              !.uaf = @ \/ S.deleted[p] > 0]

\* delete p
delete_obj(S, p) == [S EXCEPT !.deleted[p] = @ + 1]

\* intrusive_ptr_release run by one thread without interruption.
intrusive_ptr_release(S, p) ==
    LET S1 == fetch_sub(S, p)
    IN  IF use_count(S1, p) = 0 THEN delete_obj(S1, p) ELSE S1

\* Mutant: the copy constructor copies the source's counter.
counter_copy_ctor_copies(S, d, s) ==
    [S EXCEPT !.constructed[d] = TRUE, !.ref_count[d] = S.ref_count[s]]

\* intrusive_ref_counter(const intrusive_ref_counter& v) : ref_count(0) {}
\* constructing the object at address d from the object at address s.
counter_copy_ctor(S, d, s) ==
    [S EXCEPT !.constructed[d] = TRUE, !.ref_count[d] = 0]

\* operator=(const intrusive_ref_counter& v) { return *this; }
counter_copy_assign(S, d, s) == S

\* ------------------------------------------------- the handle (9-118)

get(S, h) == S.ptr[h]

operator_bool(S, h) == get(S, h) # NULL

\* intrusive_ptr() noexcept = default; ptr{nullptr}
ctor_default(S, h) == [S EXCEPT !.alive[h] = TRUE, !.ptr[h] = NULL]

\* Mutant: the add_ref flag is ignored, the constructor always increments.
ctor_raw_always_add_ref(S, h, p, add_ref, ub) ==
    LET S1 == [S EXCEPT !.alive[h] = TRUE, !.ptr[h] = p]
        S2 == IF add_ref \/ p = NULL THEN S1 ELSE [S1 EXCEPT !.detached[p] = @ - 1]
    IN  intrusive_ptr_add_ref(S2, p, ub)

\* intrusive_ptr(T* p, bool add_ref = true).  With add_ref = false the
\* handle adopts a unit the caller holds.
ctor_raw(S, h, p, add_ref, ub) ==
    LET S1 == [S EXCEPT !.alive[h] = TRUE, !.ptr[h] = p]
    IN  IF add_ref
        THEN intrusive_ptr_add_ref(S1, p, ub)
        ELSE IF p = NULL THEN S1 ELSE [S1 EXCEPT !.detached[p] = @ - 1]

\* Mutant: the copy stores the address and forgets the increment.
ctor_copy_no_add_ref(S, h, r) ==
    [S EXCEPT !.alive[h] = TRUE, !.ptr[h] = S.ptr[r]]

\* intrusive_ptr(intrusive_ptr const& r)
ctor_copy(S, h, r) ==
    LET S1 == [S EXCEPT !.alive[h] = TRUE, !.ptr[h] = S.ptr[r]]
    IN  IF S1.ptr[h] # NULL
        THEN intrusive_ptr_add_ref(S1, S1.ptr[h], "benign")
        ELSE S1

\* Mutant: the converting copy stores the address and forgets the increment.
ctor_copy_conv_no_add_ref(S, h, r) ==
    [S EXCEPT !.alive[h] = TRUE, !.ptr[h] = S.ptr[r]]

\* template <class Y> intrusive_ptr(intrusive_ptr<Y> const& r)
ctor_copy_conv(S, h, r) ==
    LET S1 == [S EXCEPT !.alive[h] = TRUE, !.ptr[h] = S.ptr[r]]
    IN  IF S1.ptr[h] # NULL
        THEN intrusive_ptr_add_ref(S1, S1.ptr[h], "benign")
        ELSE S1

\* Mutant: the move forgets  r.ptr = nullptr.
ctor_move_keep_source(S, h, r) ==
    [S EXCEPT !.alive[h] = TRUE, !.ptr[h] = S.ptr[r]]

\* intrusive_ptr(intrusive_ptr&& r): ptr(r.ptr), then r.ptr = nullptr.
ctor_move(S, h, r) ==
    LET S1 == [S EXCEPT !.alive[h] = TRUE, !.ptr[h] = S.ptr[r]]
    IN  [S1 EXCEPT !.ptr[r] = NULL]

\* template <class Y> intrusive_ptr(intrusive_ptr<Y>&& r)
ctor_move_conv(S, h, r) ==
    LET S1 == [S EXCEPT !.alive[h] = TRUE, !.ptr[h] = S.ptr[r]]
    IN  [S1 EXCEPT !.ptr[r] = NULL]

\* The end of a handle's lifetime: the slot holds no handle any more.
end_lifetime(S, h) == [S EXCEPT !.alive[h] = FALSE, !.ptr[h] = NULL]

\* Mutant: the destructor releases nothing.
dtor_no_release(S, h) == end_lifetime(S, h)

\* ~intrusive_ptr()
dtor(S, h) ==
    IF S.ptr[h] # NULL
    THEN intrusive_ptr_release(end_lifetime(S, h), S.ptr[h])
    ELSE end_lifetime(S, h)

\* Mutant: a's address is overwritten with b's and b keeps its own.
swap_overwrite(S, a, b) == [S EXCEPT !.ptr[a] = S.ptr[b]]

\* void swap(intrusive_ptr& b): std::swap(ptr, b.ptr)
swap(S, a, b) == [S EXCEPT !.ptr[a] = S.ptr[b], !.ptr[b] = S.ptr[a]]

\* template <class T> void swap(intrusive_ptr<T>& a, intrusive_ptr<T>& b)
free_swap(S, a, b) == swap(S, a, b)

\* Mutant: release the old unit first, then copy (no construct-then-swap).
assign_copy_release_first(S, h, r) ==
    LET S1 == dtor(S, h) IN ctor_copy(S1, h, r)

\* operator=(intrusive_ptr const& r): intrusive_ptr(r).swap(*this)
assign_copy(S, h, r) == dtor(swap(ctor_copy(S, Tmp, r), Tmp, h), Tmp)

\* template <class Y> operator=(intrusive_ptr<Y> const& r)
assign_copy_conv(S, h, r) == dtor(swap(ctor_copy_conv(S, Tmp, r), Tmp, h), Tmp)

\* Mutant: the target's unit is released first, then the new one is taken.
assign_raw_release_first(S, h, p, ub) ==
    LET S1 == IF S.ptr[h] # NULL
              THEN intrusive_ptr_release([S EXCEPT !.ptr[h] = NULL], S.ptr[h])
              ELSE S
    IN  intrusive_ptr_add_ref([S1 EXCEPT !.ptr[h] = p], p, ub)

\* operator=(T* r): intrusive_ptr(r).swap(*this)
assign_raw(S, h, p, ub) ==
    LET S1 == ctor_raw(S, Tmp, p, TRUE, ub)
    IN  IF S1.crashed THEN S1 ELSE dtor(swap(S1, Tmp, h), Tmp)

\* Mutant: the temporary that took the target's old address is never
\* destroyed, so the old unit is never released.
assign_move_no_release(S, h, r) ==
    end_lifetime(swap(ctor_move(S, Tmp, r), Tmp, h), Tmp)

\* operator=(intrusive_ptr&& r): intrusive_ptr(std::move(r)).swap(*this)
assign_move(S, h, r) == dtor(swap(ctor_move(S, Tmp, r), Tmp, h), Tmp)

\* template <class Y> operator=(intrusive_ptr<Y>&& r)
assign_move_conv(S, h, r) == dtor(swap(ctor_move_conv(S, Tmp, r), Tmp, h), Tmp)

\* Mutant: reset() clears the address and releases nothing.
reset0_no_release(S, h) == [S EXCEPT !.ptr[h] = NULL]

\* void reset(): intrusive_ptr().swap(*this)
reset0(S, h) == dtor(swap(ctor_default(S, Tmp), Tmp, h), Tmp)

\* void reset(T* r): intrusive_ptr(r).swap(*this)
reset1(S, h, p, ub) ==
    LET S1 == ctor_raw(S, Tmp, p, TRUE, ub)
    IN  IF S1.crashed THEN S1 ELSE dtor(swap(S1, Tmp, h), Tmp)

\* void reset(T* r, bool add_ref): intrusive_ptr(r, add_ref).swap(*this)
reset2(S, h, p, add_ref, ub) ==
    LET S1 == ctor_raw(S, Tmp, p, add_ref, ub)
    IN  IF S1.crashed THEN S1 ELSE dtor(swap(S1, Tmp, h), Tmp)

\* ------------------------------------------ comparisons (120-153)
\* operator==(intrusive_ptr<T> const& a, intrusive_ptr<U> const& b)
op_eq(S, a, b) == get(S, a) = get(S, b)

\* operator!=(intrusive_ptr<T> const& a, intrusive_ptr<U> const& b)
op_ne(S, a, b) == get(S, a) # get(S, b)

\* operator==(intrusive_ptr<T> const& a, U* b)
op_eq_raw(S, a, p) == get(S, a) = p

\* operator!=(intrusive_ptr<T> const& a, U* b)
op_ne_raw(S, a, p) == get(S, a) # p

\* operator==(T* a, intrusive_ptr<U> const& b)
raw_eq_op(S, p, b) == p = get(S, b)

\* operator!=(T* a, intrusive_ptr<U> const& b)
raw_ne_op(S, p, b) == p # get(S, b)

\* Mutant: the ordering is reversed.
op_lt_reversed(S, a, b) == get(S, a) > get(S, b)

\* operator<(intrusive_ptr<T> const& a, intrusive_ptr<T> const& b)
op_lt(S, a, b) == get(S, a) < get(S, b)

\* Mutant: detach gives the unit back (decrements) like reset().
detach_decrements(S, h) ==
    IF S.ptr[h] = NULL
    THEN S
    ELSE fetch_sub([S EXCEPT !.ptr[h] = NULL, !.detached[S.ptr[h]] = @ + 1],
                   S.ptr[h])

\* The address detach() returns.
detach_result(S, h) == S.ptr[h]

\* T* detach(): res = ptr; ptr = nullptr; return res.  The caller now holds
\* the unit.
detach(S, h) ==
    IF S.ptr[h] = NULL
    THEN S
    ELSE [S EXCEPT !.ptr[h] = NULL, !.detached[S.ptr[h]] = @ + 1]

\* ---------------------------------------------------- static typing
\* Handle 1 is an intrusive_ptr<Y> and object 1 is a Y, Y derived from T;
\* every other handle is an intrusive_ptr<T>.  A Y* converts to T*, not back.
IsY(h) == h = 1
ObjIsY(o) == o = 1
Fits(h, p) == p = NULL \/ ~IsY(h) \/ ObjIsY(p)

\* A raw address the caller may pass: null or a live object; with
\* add_ref = false, an address detach() returned and nobody re-adopted.
RawOk(p, add_ref) ==
    IF p = NULL THEN TRUE ELSE deleted[p] = 0 /\ (add_ref \/ detached[p] > 0)

\* The outcomes of the call: undefined only when add_ref runs on null.
Outcomes(p, add_ref) == IF p = NULL /\ add_ref THEN UB ELSE {"benign"}

Quiet == ~crashed /\ \A t \in Threads : pc[t] = "idle"

Step(S) == Apply(S) /\ UNCHANGED <<pc, arg>>

\* ---------------------------------------------- Spec: a single thread
Init ==
    /\ ptr = [h \in Slots |-> NULL]
    /\ alive = [h \in Slots |-> FALSE]
    /\ ref_count = [o \in Addr |-> 0]
    /\ deleted = [o \in Addr |-> 0]
    /\ detached = [o \in Addr |-> 0]
    /\ constructed = [o \in Addr |-> TRUE]
    /\ nullOp = FALSE
    /\ uaf = FALSE
    /\ crashed = FALSE
    /\ pc = [t \in Threads |-> "idle"]
    /\ arg = [t \in Threads |-> NULL]

DoCtorDefault ==
    \E h \in Handles : Quiet /\ ~alive[h] /\ Step(ctor_default(Cur, h))

DoCtorRaw ==
    \E h \in Handles, p \in Addr \cup {NULL}, add_ref \in BOOLEAN :
      \E ub \in Outcomes(p, add_ref) :
        /\ Quiet /\ ~alive[h] /\ Fits(h, p) /\ RawOk(p, add_ref)
        /\ Step(ctor_raw(Cur, h, p, add_ref, ub))

DoCtorCopy ==
    \E h, r \in Handles :
        /\ Quiet /\ ~alive[h] /\ alive[r] /\ IsY(h) = IsY(r)
        /\ Step(ctor_copy(Cur, h, r))

DoCtorCopyConv ==
    \E h, r \in Handles :
        /\ Quiet /\ ~alive[h] /\ alive[r] /\ IsY(r) /\ ~IsY(h)
        /\ Step(ctor_copy_conv(Cur, h, r))

DoCtorMove ==
    \E h, r \in Handles :
        /\ Quiet /\ ~alive[h] /\ alive[r] /\ IsY(h) = IsY(r)
        /\ Step(ctor_move(Cur, h, r))

DoCtorMoveConv ==
    \E h, r \in Handles :
        /\ Quiet /\ ~alive[h] /\ alive[r] /\ IsY(r) /\ ~IsY(h)
        /\ Step(ctor_move_conv(Cur, h, r))

DoDtor ==
    \E h \in Handles : Quiet /\ alive[h] /\ Step(dtor(Cur, h))

DoAssignCopy ==
    \E h, r \in Handles :
        /\ Quiet /\ alive[h] /\ alive[r] /\ IsY(h) = IsY(r)
        /\ Step(assign_copy(Cur, h, r))

DoAssignCopyConv ==
    \E h, r \in Handles :
        /\ Quiet /\ alive[h] /\ alive[r] /\ IsY(r) /\ ~IsY(h)
        /\ Step(assign_copy_conv(Cur, h, r))

DoAssignRaw ==
    \E h \in Handles, p \in Addr \cup {NULL} : \E ub \in Outcomes(p, TRUE) :
        /\ Quiet /\ alive[h] /\ Fits(h, p) /\ RawOk(p, TRUE)
        /\ Step(assign_raw(Cur, h, p, ub))

DoAssignMove ==
    \E h, r \in Handles :
        /\ Quiet /\ alive[h] /\ alive[r] /\ IsY(h) = IsY(r)
        /\ Step(assign_move(Cur, h, r))

DoAssignMoveConv ==
    \E h, r \in Handles :
        /\ Quiet /\ alive[h] /\ alive[r] /\ IsY(r) /\ ~IsY(h)
        /\ Step(assign_move_conv(Cur, h, r))

DoReset0 ==
    \E h \in Handles : Quiet /\ alive[h] /\ Step(reset0(Cur, h))

DoReset1 ==
    \E h \in Handles, p \in Addr \cup {NULL} : \E ub \in Outcomes(p, TRUE) :
        /\ Quiet /\ alive[h] /\ Fits(h, p) /\ RawOk(p, TRUE)
        /\ Step(reset1(Cur, h, p, ub))

DoReset2 ==
    \E h \in Handles, p \in Addr \cup {NULL}, add_ref \in BOOLEAN :
      \E ub \in Outcomes(p, add_ref) :
        /\ Quiet /\ alive[h] /\ Fits(h, p) /\ RawOk(p, add_ref)
        /\ Step(reset2(Cur, h, p, add_ref, ub))

SumTo[n \in 0 .. NObjs] == IF n = 0 THEN 0 ELSE detached[n] + SumTo[n - 1]

DetachedTotal == SumTo[NObjs]

DoDetach ==
    \E h \in Handles :
        /\ Quiet /\ alive[h]
        /\ IF ptr[h] = NULL THEN TRUE ELSE DetachedTotal < MaxDetached
        /\ Step(detach(Cur, h))

DoSwap ==
    \E a, b \in Handles :
        /\ Quiet /\ alive[a] /\ alive[b] /\ IsY(a) = IsY(b)
        /\ Step(swap(Cur, a, b))

DoFreeSwap ==
    \E a, b \in Handles :
        /\ Quiet /\ alive[a] /\ alive[b] /\ IsY(a) = IsY(b)
        /\ Step(free_swap(Cur, a, b))

Next ==
    \/ DoCtorDefault \/ DoCtorRaw \/ DoCtorCopy \/ DoCtorCopyConv
    \/ DoCtorMove \/ DoCtorMoveConv \/ DoDtor
    \/ DoAssignCopy \/ DoAssignCopyConv \/ DoAssignRaw
    \/ DoAssignMove \/ DoAssignMoveConv
    \/ DoReset0 \/ DoReset1 \/ DoReset2
    \/ DoDetach \/ DoSwap \/ DoFreeSwap

Spec == Init /\ [][Next]_vars

\* ------------------------------------- SpecMT: threads, own handles only
\* Handle h belongs to thread Owner(h); no thread touches another's handle.
Owner(h) == ((h - 1) % NThreads) + 1
\* The pointee every thread is given a handle to.
Shared == 1

\* Each thread starts with one handle (handle t) to the shared object, as
\* after the spawning thread made the copies: counter = NThreads.
InitMT ==
    /\ ptr = [h \in Slots |-> IF h \in Threads THEN Shared ELSE NULL]
    /\ alive = [h \in Slots |-> h \in Threads]
    /\ ref_count = [o \in Addr |-> IF o = Shared THEN NThreads ELSE 0]
    /\ deleted = [o \in Addr |-> 0]
    /\ detached = [o \in Addr |-> 0]
    /\ constructed = [o \in Addr |-> TRUE]
    /\ nullOp = FALSE
    /\ uaf = FALSE
    /\ crashed = FALSE
    /\ pc = [t \in Threads |-> "idle"]
    /\ arg = [t \in Threads |-> NULL]

Ready(t) == ~crashed /\ pc[t] = "idle"

\* Thread t copy-constructs its handle h from its handle r (one fetch_add).
MTCopy(t) ==
    \E h, r \in Handles :
        /\ Ready(t) /\ Owner(h) = t /\ Owner(r) = t
        /\ ~alive[h] /\ alive[r] /\ (IsY(h) => IsY(r))
        /\ Apply(IF IsY(h) = IsY(r) THEN ctor_copy(Cur, h, r)
                                    ELSE ctor_copy_conv(Cur, h, r))
        /\ UNCHANGED <<pc, arg>>

\* Thread t move-constructs its handle h from its handle r.
MTMove(t) ==
    \E h, r \in Handles :
        /\ Ready(t) /\ Owner(h) = t /\ Owner(r) = t
        /\ ~alive[h] /\ alive[r] /\ (IsY(h) => IsY(r))
        /\ Apply(IF IsY(h) = IsY(r) THEN ctor_move(Cur, h, r)
                                    ELSE ctor_move_conv(Cur, h, r))
        /\ UNCHANGED <<pc, arg>>

\* ~intrusive_ptr() of handle h in state S, up to and including the
\* fetch_sub of intrusive_ptr_release: the thread's next step is the re-read.
EnterDtor(t, S, h) ==
    IF S.ptr[h] = NULL
    THEN Apply(end_lifetime(S, h)) /\ UNCHANGED <<pc, arg>>
    ELSE /\ Apply(fetch_sub(end_lifetime(S, h), S.ptr[h]))
         /\ pc' = [pc EXCEPT ![t] = "check"]
         /\ arg' = [arg EXCEPT ![t] = S.ptr[h]]

\* Thread t destroys its handle h.
MTDrop(t) ==
    \E h \in Handles :
        /\ Ready(t) /\ Owner(h) = t /\ alive[h]
        /\ EnterDtor(t, Cur, h)

\* Thread t calls h.reset(): the temporary takes h's address and is destroyed.
MTReset(t) ==
    \E h \in Handles :
        /\ Ready(t) /\ Owner(h) = t /\ alive[h]
        /\ EnterDtor(t, swap(ctor_default(Cur, Tmp), Tmp, h), Tmp)

\* What p->use_count() can return: the counter, or, once the object was
\* deleted, whatever the freed memory holds (zero or not).
ReadValues(S, p) == IF S.deleted[p] > 0 THEN {0, 1} ELSE {use_count(S, p)}

\* if (p->use_count() == 0)
MTCheck(t) ==
    /\ ~crashed /\ pc[t] = "check"
    /\ \E v \in ReadValues(Cur, arg[t]) :
        /\ Apply([Cur EXCEPT !.uaf = @ \/ deleted[arg[t]] > 0])
        /\ pc' = [pc EXCEPT ![t] = IF v = 0 THEN "delete" ELSE "idle"]
        /\ arg' = [arg EXCEPT ![t] = IF v = 0 THEN @ ELSE NULL]

\* delete p; a second delete of the same object is a double free.
MTDelete(t) ==
    /\ ~crashed /\ pc[t] = "delete"
    /\ \E ub \in (IF deleted[arg[t]] > 0 THEN UB ELSE {"benign"}) :
        Apply([delete_obj(Cur, arg[t]) EXCEPT !.crashed = (ub = "fault")])
    /\ pc' = [pc EXCEPT ![t] = "idle"]
    /\ arg' = [arg EXCEPT ![t] = NULL]

NextMT ==
    \E t \in Threads :
        \/ MTCopy(t) \/ MTMove(t) \/ MTDrop(t) \/ MTReset(t)
        \/ MTCheck(t) \/ MTDelete(t)

\* Every thread that is inside intrusive_ptr_release gets to finish it.
SpecMT ==
    /\ InitMT /\ [][NextMT]_vars
    /\ \A t \in Threads : WF_vars(MTCheck(t)) /\ WF_vars(MTDelete(t))

\* ------------------------- SpecCounter: the protocol on raw addresses
\* One object exists (default-constructed, counter 0); the others come into
\* existence by copy construction.
InitCounter ==
    /\ ptr = [h \in Slots |-> NULL]
    /\ alive = [h \in Slots |-> FALSE]
    /\ ref_count = [o \in Addr |-> 0]
    /\ deleted = [o \in Addr |-> 0]
    /\ detached = [o \in Addr |-> 0]
    /\ constructed = [o \in Addr |-> o = Shared]
    /\ nullOp = FALSE
    /\ uaf = FALSE
    /\ crashed = FALSE
    /\ pc = [t \in Threads |-> "idle"]
    /\ arg = [t \in Threads |-> NULL]

\* The object at p exists and delete has not run on it.
Live(p) == constructed[p] /\ deleted[p] = 0

\* new Derived(*s) placed at address d.
CounterCopyCtor ==
    \E d, s \in Addr :
        /\ Live(s) /\ ~constructed[d]
        /\ Step(counter_copy_ctor(Cur, d, s))

\* The caller takes a unit: intrusive_ptr_add_ref(p).
CounterAddRef ==
    \E p \in Addr :
        /\ Live(p) /\ detached[p] < MaxCount
        /\ Step([intrusive_ptr_add_ref(Cur, p, "benign")
                    EXCEPT !.detached[p] = @ + 1])

\* The caller gives back a unit it holds: intrusive_ptr_release(p).
CounterRelease ==
    \E p \in Addr :
        /\ Live(p) /\ detached[p] > 0
        /\ Step([intrusive_ptr_release(Cur, p) EXCEPT !.detached[p] = @ - 1])

\* *d = *s on two counted objects.
CounterCopyAssign ==
    \E d, s \in Addr :
        /\ Live(d) /\ Live(s)
        /\ Step(counter_copy_assign(Cur, d, s))

NextCounter ==
    \/ CounterCopyCtor \/ CounterCopyAssign
    \/ CounterAddRef \/ CounterRelease

SpecCounter == InitCounter /\ [][NextCounter]_vars

\* ------------------------------------------------------------ claims

\* The handles that exist and hold address o in state S.
Holders(S, o) == {h \in Handles : S.alive[h] /\ S.ptr[h] = o}

\* C1 (as claimed): in every interleaving of the steps of
\* intrusive_ptr_release run by threads that each drop their own handle to
\* the same object, delete runs at most once on the object.
C1_DeletedAtMostOnce == \A o \in Addr : deleted[o] <= 1

\* C2: an object is never destroyed while a live handle (one not inside its
\* own destructor) holds its address, whatever the interleaving of copies,
\* moves, drops and resets by threads working on their own handles: delete
\* runs only after the last holding handle was destroyed, reset or moved from.
C2_NoPrematureDestruction ==
    \A o \in Addr : Holders(Cur, o) # {} => deleted[o] = 0

\* C2 witness: the shared object is destroyed, after every handle let go of
\* it, while handle objects still exist (they were reset or moved from).
C2_Witness ==
    /\ deleted[Shared] = 1
    /\ Holders(Cur, Shared) = {}
    /\ \E h \in Handles : alive[h]

\* No handle holds the shared object any more.
AllDropped == Holders(Cur, Shared) = {}

\* C3: once every handle holding the object is destroyed or reset, some
\* intrusive_ptr_release observes zero and the object is destroyed (threads
\* inside a release scheduled weakly fairly).
C3_NoLeak == AllDropped ~> (deleted[Shared] >= 1)

\* C3 witness: the last handle is gone, the thread that dropped it has done
\* its fetch_sub and not yet its re-read, and the object still exists.
C3_Witness ==
    /\ AllDropped
    /\ deleted[Shared] = 0
    /\ ref_count[Shared] = 0
    /\ \E t \in Threads : pc[t] = "check" /\ arg[t] = Shared

\* The counter of every object that was not destroyed equals the number of
\* handles holding its address plus the units detach() handed out.
Counted(S) ==
    \A o \in Addr :
        S.deleted[o] = 0 =>
            S.ref_count[o] = Cardinality(Holders(S, o)) + S.detached[o]

\* C4: between completed handle operations of a single thread, the counter
\* of every non-destroyed object equals the number of non-null handles
\* holding its address plus the number of detached units not yet re-adopted.
C4_CounterInvariant == Counted(Cur)

\* C4 witness: an object held by two handles with one more unit detached.
C4_Witness ==
    \E o \in Addr :
        /\ deleted[o] = 0
        /\ detached[o] = 1
        /\ Cardinality(Holders(Cur, o)) = 2
        /\ ref_count[o] = 3

\* C5 (as claimed): a handle made from null (default-constructed, or given a
\* null address through the raw-pointer constructor, operator=(T*) or
\* reset(T*)) has get() = null and converts to false, and no counting
\* operation is ever applied to the null address.
C5_NullConstruction ==
    /\ \A h \in Handles :
        ~alive[h] =>
            /\ get(ctor_default(Cur, h), h) = NULL
            /\ ~operator_bool(ctor_default(Cur, h), h)
            /\ get(ctor_raw(Cur, h, NULL, TRUE, "benign"), h) = NULL
            /\ ~operator_bool(ctor_raw(Cur, h, NULL, TRUE, "benign"), h)
    /\ \A h \in Handles :
        alive[h] =>
            /\ get(assign_raw(Cur, h, NULL, "benign"), h) = NULL
            /\ get(reset1(Cur, h, NULL, "benign"), h) = NULL
    /\ ~nullOp

\* The copy constructor the compiler picks for  intrusive_ptr h(r).
CopyOf(S, h, r) ==
    IF IsY(h) = IsY(r) THEN ctor_copy(S, h, r) ELSE ctor_copy_conv(S, h, r)

\* C6: copy-constructing h (same type or converting) from a non-null source
\* r adds exactly 1 to the pointee's counter, stores the same address and
\* leaves the source alone; destroying the copy subtracts exactly 1; so
\* copy-then-drop restores the counter and destroys nothing.
C6_CopyThenDrop ==
    \A h, r \in Handles :
        (~crashed /\ ~alive[h] /\ alive[r] /\ ptr[r] # NULL /\ (IsY(h) => IsY(r))) =>
            LET o == ptr[r]
                S1 == CopyOf(Cur, h, r)
                S2 == dtor(S1, h)
            IN  /\ S1.ref_count = [ref_count EXCEPT ![o] = @ + 1]
                /\ S1.ptr = [ptr EXCEPT ![h] = o]
                /\ S1.alive = [alive EXCEPT ![h] = TRUE]
                /\ S1.deleted = deleted
                /\ S2.ref_count = [S1.ref_count EXCEPT ![o] = @ - 1]
                /\ S2.ref_count = ref_count
                /\ S2.deleted = deleted
                /\ S2.ptr = ptr /\ S2.alive = alive

\* C6 witness: a sole owner r (counter 1) and a free slot; the copy makes
\* the counter 2, same-type and converting copies both occurring.
C6_Witness ==
    \E h, r \in Handles :
        /\ ~crashed /\ ~alive[h] /\ alive[r] /\ ptr[r] # NULL /\ ~IsY(h) /\ ~IsY(r)
        /\ ref_count[ptr[r]] = 1
        /\ ctor_copy(Cur, h, r).ref_count[ptr[r]] = 2
        /\ alive[1] /\ ptr[1] # NULL /\ ptr[1] # ptr[r]
        /\ ctor_copy_conv(Cur, h, 1).ref_count[ptr[1]] = ref_count[ptr[1]] + 1

\* The move constructor / move assignment the compiler picks.
MoveOf(S, h, r) ==
    IF IsY(h) = IsY(r) THEN ctor_move(S, h, r) ELSE ctor_move_conv(S, h, r)

MoveAssignOf(S, h, r) ==
    IF IsY(h) = IsY(r) THEN assign_move(S, h, r) ELSE assign_move_conv(S, h, r)

\* Releasing one unit of object q in state S: the counter drops by one and
\* the object is deleted iff that was its last unit.
ReleasedOnce(S, T, q) ==
    /\ T.ref_count[q] = S.ref_count[q] - 1
    /\ T.deleted[q] = S.deleted[q] + (IF S.ref_count[q] = 1 THEN 1 ELSE 0)

\* Move construction of h from r: no counter changes, r is null, h holds
\* r's address.
MoveCtorOk ==
    \A h, r \in Handles :
        (~crashed /\ ~alive[h] /\ alive[r] /\ (IsY(h) => IsY(r))) =>
            LET S1 == MoveOf(Cur, h, r)
            IN  /\ S1.ref_count = ref_count
                /\ S1.deleted = deleted
                /\ S1.ptr = [ptr EXCEPT ![h] = ptr[r], ![r] = NULL]
                /\ S1.alive = [alive EXCEPT ![h] = TRUE]

\* C7 (as claimed): moving into h from a distinct handle r leaves the
\* counter of the moved object unchanged, nulls r and makes h hold r's
\* address; move assignment also releases h's previous unit exactly once.
C7_MoveAsClaimed ==
    /\ MoveCtorOk
    /\ \A h, r \in Handles :
        (~crashed /\ alive[h] /\ alive[r] /\ h # r /\ (IsY(h) => IsY(r))) =>
            LET o == ptr[r]
                q == ptr[h]
                S1 == MoveAssignOf(Cur, h, r)
            IN  /\ S1.ptr = [ptr EXCEPT ![h] = o, ![r] = NULL]
                /\ o # NULL => S1.ref_count[o] = ref_count[o]
                /\ q # NULL => ReleasedOnce(Cur, S1, q)

\* C7 (amended): as claimed, except that when the target of a move
\* assignment already holds the moved object, that object's counter drops by
\* exactly one (the release of the target's previous unit) and the object
\* is not destroyed; no other object's counter changes.
C7_Move ==
    /\ MoveCtorOk
    /\ \A h, r \in Handles :
        (~crashed /\ alive[h] /\ alive[r] /\ h # r /\ (IsY(h) => IsY(r))) =>
            LET o == ptr[r]
                q == ptr[h]
                S1 == MoveAssignOf(Cur, h, r)
            IN  /\ S1.ptr = [ptr EXCEPT ![h] = o, ![r] = NULL]
                /\ S1.alive = alive
                /\ (o # NULL /\ o # q) =>
                        S1.ref_count[o] = ref_count[o] /\ S1.deleted[o] = deleted[o]
                /\ (o # NULL /\ o = q) =>
                        S1.ref_count[o] = ref_count[o] - 1 /\ S1.deleted[o] = 0
                /\ q # NULL => ReleasedOnce(Cur, S1, q)
                /\ \A x \in Addr \ {q} :
                        S1.ref_count[x] = ref_count[x] /\ S1.deleted[x] = deleted[x]

\* C7 witness: two distinct handles hold the same object (counter 2) and one
\* is move-assigned from the other: the target keeps the address, the source
\* is null, and the counter is 1.
C7_Witness ==
    \E h, r \in Handles :
        /\ ~crashed /\ alive[h] /\ alive[r] /\ h # r /\ (IsY(h) => IsY(r))
        /\ ptr[r] # NULL /\ ptr[h] = ptr[r]
        /\ ref_count[ptr[r]] = 2
        /\ MoveAssignOf(Cur, h, r).ref_count[ptr[r]] = 1
        /\ MoveAssignOf(Cur, h, r).ptr[h] = ptr[r]
        /\ MoveAssignOf(Cur, h, r).ptr[r] = NULL

\* C8: detach() returns the held address, nulls the handle and changes no
\* counter (destroying the handle afterwards decrements nothing); building
\* a handle from the returned address with add_ref = false restores the
\* state before the detach.
C8_DetachAdopt ==
    \A h \in Handles :
        (~crashed /\ alive[h] /\ ptr[h] # NULL) =>
            LET p == detach_result(Cur, h)
                S1 == detach(Cur, h)
                S2 == dtor(S1, h)
                S3 == ctor_raw(S2, h, p, FALSE, "benign")
                S4 == reset2(S1, h, p, FALSE, "benign")
            IN  /\ p = ptr[h]
                /\ S1.ptr = [ptr EXCEPT ![h] = NULL]
                /\ S1.ref_count = ref_count /\ S1.deleted = deleted
                /\ S2.ref_count = ref_count /\ S2.deleted = deleted
                /\ S3 = Cur
                /\ S4 = Cur

\* C8 witness: detach() has run on the only handle of an object: the unit
\* is in the caller's hands, the counter is still 1, nothing was destroyed.
C8_Witness ==
    \E o \in Addr :
        /\ detached[o] = 1
        /\ Holders(Cur, o) = {}
        /\ ref_count[o] = 1
        /\ deleted[o] = 0
        /\ \E h \in Handles : alive[h] /\ ptr[h] = NULL

\* C9: h = h (copy assignment) changes neither the address held nor any
\* counter and destroys nothing, also when h is the only handle.
C9_SelfCopyAssign ==
    \A h \in Handles :
        (~crashed /\ alive[h]) => assign_copy(Cur, h, h) = Cur

\* C9 witness: the only handle of an object (counter 1), and a null handle.
C9_Witness ==
    \E h, g \in Handles :
        /\ ~crashed /\ alive[h] /\ ptr[h] # NULL
        /\ Holders(Cur, ptr[h]) = {h}
        /\ ref_count[ptr[h]] = 1
        /\ alive[g] /\ ptr[g] = NULL
        /\ assign_copy(Cur, h, h).ptr[h] = ptr[h]

\* C10: after h = std::move(h) the handle is unchanged or null, counters
\* still equal the number of holders, and if h still holds its address the
\* pointee was not destroyed.
C10_SelfMoveAssign ==
    \A h \in Handles :
        (~crashed /\ alive[h]) =>
            LET S1 == assign_move(Cur, h, h)
            IN  /\ S1.alive[h]
                /\ S1.ptr[h] = ptr[h] \/ S1.ptr[h] = NULL
                /\ Counted(S1)
                /\ S1.ptr[h] # NULL => S1.deleted[S1.ptr[h]] = 0
                /\ \A g \in Handles \ {h} : S1.ptr[g] = ptr[g]

\* C10 witness: self-move of a sole owner keeps the address and the object.
C10_Witness ==
    \E h \in Handles :
        /\ ~crashed /\ alive[h] /\ ptr[h] # NULL
        /\ ref_count[ptr[h]] = 1
        /\ detached[ptr[h]] = 0
        /\ assign_move(Cur, h, h).ptr[h] = ptr[h]
        /\ assign_move(Cur, h, h).deleted[ptr[h]] = 0

\* The slots handle r can be copied into in state S.
FreeFor(S, r) == {h \in Handles : ~S.alive[h] /\ (IsY(h) => IsY(r))}

\* The state after k copies  intrusive_ptr c1(r), c2(r), ...  made one after
\* the other into free slots, no copy dropped.
RECURSIVE Copies(_, _, _)
Copies(S, r, k) ==
    IF k = 0
    THEN S
    ELSE LET S1 == Copies(S, r, k - 1)
             h == CHOOSE x \in FreeFor(S1, r) : TRUE
         IN  CopyOf(S1, h, r)

\* Handle r is the sole owner of its pointee.
SoleOwner(r) ==
    /\ ~crashed /\ alive[r] /\ ptr[r] # NULL
    /\ Holders(Cur, ptr[r]) = {r}
    /\ detached[ptr[r]] = 0
    /\ ref_count[ptr[r]] = 1

\* C11 (as claimed): after the sole owner made k >= 1 copies of its handle,
\* use_count() returns k.
C11_UseCountAsClaimed ==
    \A r \in Handles :
        SoleOwner(r) =>
            \A k \in 1 .. Cardinality(FreeFor(Cur, r)) :
                use_count(Copies(Cur, r, k), ptr[r]) = k

\* C11 (amended): after the sole owner made k copies of its handle,
\* use_count() returns k + 1: the owner's handle and the k copies.
C11_UseCount ==
    \A r \in Handles :
        SoleOwner(r) =>
            \A k \in 0 .. Cardinality(FreeFor(Cur, r)) :
                /\ use_count(Copies(Cur, r, k), ptr[r]) = k + 1
                /\ Cardinality(Holders(Copies(Cur, r, k), ptr[r])) = k + 1

\* C11 witness: a sole owner with two free slots; after two copies
\* use_count() is 3.
C11_Witness ==
    \E r \in Handles :
        /\ SoleOwner(r)
        /\ Cardinality(FreeFor(Cur, r)) = 2
        /\ use_count(Copies(Cur, r, 2), ptr[r]) = 3

\* C12: constructing a handle from a non-null raw address increments the
\* pointee's counter exactly once with add_ref = true and touches no counter
\* with add_ref = false (it adopts a unit already counted); either way the
\* handle holds the address, and destroying it decrements exactly once.
C12_RawConstruct ==
    \A h \in Handles, p \in Addr, add_ref \in BOOLEAN :
        (~crashed /\ ~alive[h] /\ Fits(h, p) /\ RawOk(p, add_ref)) =>
            LET S1 == ctor_raw(Cur, h, p, add_ref, "benign")
                S2 == dtor(S1, h)
            IN  /\ S1.ref_count =
                      [ref_count EXCEPT ![p] = @ + (IF add_ref THEN 1 ELSE 0)]
                /\ S1.deleted = deleted
                /\ S1.alive[h] /\ get(S1, h) = p
                /\ \A g \in Handles \ {h} : S1.ptr[g] = ptr[g]
                /\ S1.nullOp = nullOp /\ S1.uaf = uaf
                /\ ReleasedOnce(S1, S2, p)
                /\ \A x \in Addr \ {p} :
                      S2.ref_count[x] = ref_count[x] /\ S2.deleted[x] = deleted[x]

\* C12 witness: a free slot and an object with a detached unit, so that both
\* forms apply: add_ref = true takes the counter from 1 to 2, add_ref = false
\* leaves it at 1, and the adopting handle's destructor destroys the object.
C12_Witness ==
    \E h \in Handles, p \in Addr :
        /\ ~crashed /\ ~alive[h] /\ Fits(h, p) /\ RawOk(p, FALSE)
        /\ ref_count[p] = 1
        /\ ctor_raw(Cur, h, p, TRUE, "benign").ref_count[p] = 2
        /\ ctor_raw(Cur, h, p, FALSE, "benign").ref_count[p] = 1
        /\ dtor(ctor_raw(Cur, h, p, FALSE, "benign"), h).deleted[p] = 1

\* C13: the counter is never copied between distinct counted objects:
\* copy-constructing from a source whose counter is c gives a new object with
\* counter 0 and leaves the source at c; copy-assigning one counted object to
\* another leaves the target's and the source's counters as they were.
C13_CounterNotCopied ==
    \A d, s \in Addr :
        (d # s /\ Live(s)) =>
            /\ ~constructed[d] =>
                  LET T == counter_copy_ctor(Cur, d, s)
                  IN  /\ T.constructed[d]
                      /\ T.ref_count[d] = 0
                      /\ T.ref_count[s] = ref_count[s]
                      /\ T.deleted = deleted
            /\ Live(d) =>
                  LET T == counter_copy_assign(Cur, d, s)
                  IN  /\ T.ref_count[d] = ref_count[d]
                      /\ T.ref_count[s] = ref_count[s]
                      /\ T.deleted = deleted

\* C13 witness: an object was copy-constructed from the first one, and the
\* two now carry different non-zero counters, so that a copy of the counter
\* in either direction would show.
C13_Witness ==
    \E d \in Addr \ {Shared} :
        /\ Live(d) /\ Live(Shared)
        /\ ref_count[Shared] = 2 /\ ref_count[d] = 1
        /\ counter_copy_assign(Cur, d, Shared).ref_count[d] = 1

\* The whole effect of exchanging the addresses of a and b in state S.
Exchanged(S, a, b) ==
    [S EXCEPT !.ptr = [x \in Slots |-> IF x = a THEN S.ptr[b]
                                       ELSE IF x = b THEN S.ptr[a]
                                       ELSE S.ptr[x]]]

\* C14: swap, as member and as free function, on two handles a and b of the
\* same type exchanges their addresses, changes no counter and destroys no
\* object, whatever the two hold (null or not, the same pointee or not) and
\* also when a and b are the same handle.
C14_Swap ==
    \A a, b \in Handles :
        (~crashed /\ alive[a] /\ alive[b] /\ IsY(a) = IsY(b)) =>
            /\ swap(Cur, a, b) = Exchanged(Cur, a, b)
            /\ free_swap(Cur, a, b) = Exchanged(Cur, a, b)
            /\ swap(Cur, a, b).ref_count = ref_count
            /\ swap(Cur, a, b).deleted = deleted
            /\ swap(Cur, a, a) = Cur

\* C14 witness: two handles of one type, one null and one holding an object,
\* after a swap has moved the address from the one to the other; swapping
\* again moves it back.
C14_Witness ==
    \E a, b \in Handles :
        /\ a # b /\ alive[a] /\ alive[b] /\ IsY(a) = IsY(b)
        /\ ptr[a] = NULL /\ ptr[b] # NULL
        /\ deleted[ptr[b]] = 0 /\ ref_count[ptr[b]] = 1
        /\ swap(Cur, a, b).ptr[a] = ptr[b]
        /\ swap(Cur, a, b).ptr[b] = NULL

\* Insertion sort of a sequence of handles with operator< as the comparison
\* (stable: x goes before the first element it is less than).
RECURSIVE InsertHandle(_, _, _)
InsertHandle(S, x, sorted) ==
    IF sorted = << >> THEN <<x>>
    ELSE IF op_lt(S, x, Head(sorted)) THEN <<x>> \o sorted
    ELSE <<Head(sorted)>> \o InsertHandle(S, x, Tail(sorted))

RECURSIVE SortHandles(_, _)
SortHandles(S, hs) ==
    IF hs = << >> THEN << >>
    ELSE InsertHandle(S, hs[Len(hs)], SortHandles(S, SubSeq(hs, 1, Len(hs) - 1)))

\* The same sort on raw addresses with the built-in <.
RECURSIVE InsertAddr(_, _)
InsertAddr(x, sorted) ==
    IF sorted = << >> THEN <<x>>
    ELSE IF x < Head(sorted) THEN <<x>> \o sorted
    ELSE <<Head(sorted)>> \o InsertAddr(x, Tail(sorted))

RECURSIVE SortAddrs(_)
SortAddrs(ps) ==
    IF ps = << >> THEN << >>
    ELSE InsertAddr(ps[Len(ps)], SortAddrs(SubSeq(ps, 1, Len(ps) - 1)))

\* The addresses held by the handles of a sequence, position by position.
AddrsOf(S, hs) == [i \in 1 .. Len(hs) |-> get(S, hs[i])]

\* The constructed handles of the static type of handle a (handle 1 is of
\* the one type, handle NHandles of the other).
SameType(a) == {h \in Handles : alive[h] /\ IsY(h) = IsY(a)}

\* The sequences that hold every handle of H once, in any order.
Arrangements(H) ==
    {hs \in [1 .. Cardinality(H) -> H] :
        \A i, j \in 1 .. Cardinality(H) : hs[i] = hs[j] => i = j}

\* C15: comparison is by address.  == holds iff the two get() are equal
\* (so two handles to one object are equal), != is its negation, also
\* against raw addresses on either side; < holds iff get(a) < get(b), is
\* irreflexive and transitive and orders any two handles with different
\* addresses; sorting handles with < gives the order of their raw addresses.
C15_Comparison ==
    /\ \A a, b \in Handles : (alive[a] /\ alive[b]) =>
        /\ op_eq(Cur, a, b) <=> (get(Cur, a) = get(Cur, b))
        /\ op_ne(Cur, a, b) <=> ~op_eq(Cur, a, b)
        /\ (ptr[a] # NULL /\ a \in Holders(Cur, ptr[b])) => op_eq(Cur, a, b)
        /\ \A p \in Addr \cup {NULL} :
            /\ op_eq_raw(Cur, a, p) <=> (get(Cur, a) = p)
            /\ raw_eq_op(Cur, p, a) <=> op_eq_raw(Cur, a, p)
            /\ op_ne_raw(Cur, a, p) <=> ~op_eq_raw(Cur, a, p)
            /\ raw_ne_op(Cur, p, a) <=> ~raw_eq_op(Cur, p, a)
    /\ \A a \in Handles : alive[a] =>
        /\ ~op_lt(Cur, a, a)
        /\ \A b \in SameType(a) :
            /\ op_lt(Cur, a, b) <=> (get(Cur, a) < get(Cur, b))
            /\ op_ne(Cur, a, b) => (op_lt(Cur, a, b) # op_lt(Cur, b, a))
            /\ op_eq(Cur, a, b) => (~op_lt(Cur, a, b) /\ ~op_lt(Cur, b, a))
            /\ \A c \in SameType(a) :
                (op_lt(Cur, a, b) /\ op_lt(Cur, b, c)) => op_lt(Cur, a, c)
    /\ \A a \in {1, NHandles} :
        \A hs \in Arrangements(SameType(a)) :
            AddrsOf(Cur, SortHandles(Cur, hs)) = SortAddrs(AddrsOf(Cur, hs))

\* C15 witness: two handles of one type hold different objects, the later
\* handle the lower address, so that sorting has to reorder them; a third
\* handle of another type holds the same object as one of them and is equal
\* to it.
C15_Witness ==
    \E a, b, c \in Handles :
        /\ alive[a] /\ alive[b] /\ alive[c]
        /\ a < b /\ IsY(a) = IsY(b) /\ IsY(c) # IsY(a)
        /\ ptr[b] # NULL /\ ptr[b] < ptr[a]
        /\ op_lt(Cur, b, a) /\ ~op_lt(Cur, a, b) /\ op_ne(Cur, a, b)
        /\ op_eq(Cur, c, b)
        /\ SortHandles(Cur, <<a, b, a>>) = <<b, a, a>>

\* The states an assignment or reset passes through once its temporary is
\* constructed (state S1): the temporary constructed, swapped with the
\* target h, destroyed.
Steps(S1, h) == <<S1, swap(S1, Tmp, h), dtor(swap(S1, Tmp, h), Tmp)>>

\* Along the steps T, taking a unit on the new pointee n comes first and
\* giving back the unit on the old pointee o comes last; when n = o the
\* counter stays at 1 or more throughout and the object is not deleted.
IncrementFirst(T, o, n) ==
    /\ T[1].ref_count = [ref_count EXCEPT ![n] = @ + 1]
    /\ T[1].deleted = deleted
    /\ T[2].ref_count = T[1].ref_count /\ T[2].deleted = deleted
    /\ o # NULL => T[3].ref_count = [T[2].ref_count EXCEPT ![o] = @ - 1]
    /\ o = NULL => T[3].ref_count = T[2].ref_count
    /\ o = n =>
        /\ \A i \in 1 .. 3 : T[i].ref_count[n] >= 1 /\ T[i].deleted[n] = 0
        /\ T[3].ref_count = ref_count

\* C16: copy-assignment, assignment from a raw address and reset(address)
\* construct the temporary (the increment on the new pointee) before they
\* destroy it (the decrement on the pointee held before); when the new
\* address is the one the target already holds, the counter never reaches
\* zero during the operation and the pointee is not destroyed.
C16_ConstructThenSwap ==
    \A h \in Handles : (~crashed /\ alive[h]) =>
        /\ \A r \in Handles : (alive[r] /\ IsY(h) = IsY(r) /\ ptr[r] # NULL) =>
            LET T == Steps(ctor_copy(Cur, Tmp, r), h)
            IN  /\ T[3] = assign_copy(Cur, h, r)
                /\ IncrementFirst(T, ptr[h], ptr[r])
        /\ \A p \in Addr : (Fits(h, p) /\ RawOk(p, TRUE)) =>
            LET T == Steps(ctor_raw(Cur, Tmp, p, TRUE, "benign"), h)
            IN  /\ T[3] = assign_raw(Cur, h, p, "benign")
                /\ T[3] = reset1(Cur, h, p, "benign")
                /\ IncrementFirst(T, ptr[h], p)

\* C16 witness: h is the only holder of its pointee (counter 1) and is
\* assigned its own address, h = h.get(): the counter goes 1, 2, 2, 1; a
\* second handle holding the same pointee makes a = b with both holding X.
C16_Witness ==
    \E h \in Handles :
        /\ ~crashed /\ alive[h] /\ ptr[h] # NULL
        /\ ref_count[ptr[h]] = 1 /\ deleted[ptr[h]] = 0
        /\ Steps(ctor_raw(Cur, Tmp, ptr[h], TRUE, "benign"), h)[2].ref_count[ptr[h]] = 2
        /\ assign_raw(Cur, h, get(Cur, h), "benign").ref_count[ptr[h]] = 1
        /\ assign_raw(Cur, h, get(Cur, h), "benign").deleted[ptr[h]] = 0
        /\ \E a, b \in Handles \ {h} :
            /\ a # b /\ alive[a] /\ alive[b] /\ IsY(a) = IsY(b)
            /\ ptr[a] = ptr[b] /\ ptr[a] # NULL

\* C17 (as claimed): intrusive_ptr_release deletes the object iff the size_t
\* counter is zero after the subtract: for every counter value c >= 1 before
\* the call, delete runs iff c - 1 = 0, although the re-check goes through
\* use_count() and its cast to unsigned int.
C17_DeleteIffZero ==
    \A p \in Addr :
        (Live(p) /\ ref_count[p] >= 1) =>
            LET T == intrusive_ptr_release(Cur, p)
            IN  /\ T.ref_count[p] = ref_count[p] - 1
                /\ (T.deleted[p] = 1) <=> (ref_count[p] - 1 = 0)

\* C18 (as claimed): in every interleaving of threads that drop or copy
\* their own handles to a shared object, no step of intrusive_ptr_add_ref or
\* intrusive_ptr_release, the re-read of the counter after fetch_sub
\* included, reads or writes the counter of an object already deleted.
C18_NoUseAfterFree == ~uaf

\* h = F, where F is a handle just constructed in slot f (state S1) and
\* destroyed after the assignment: move assignment from the fresh handle.
AssignFresh(S1, h, f) == dtor(assign_move(S1, h, f), f)

\* The state after handle h took k units on p and gave back the one unit it
\* held on old (none when old is null), delete running iff that was the last.
Retargeted(h, p, k, old) ==
    LET inc == IF p = NULL THEN ref_count
               ELSE [ref_count EXCEPT ![p] = @ + k]
        fin == IF old = NULL THEN inc ELSE [inc EXCEPT ![old] = @ - 1]
    IN  [Cur EXCEPT
            !.ptr[h] = p,
            !.ref_count = fin,
            !.deleted = [o \in Addr |->
                IF o = old /\ fin[o] = 0 THEN deleted[o] + 1 ELSE deleted[o]],
            !.detached = [o \in Addr |->
                IF o = p /\ k = 0 THEN detached[o] - 1 ELSE detached[o]]]

\* C19: each reset form leaves the handle and all counters as assigning a
\* freshly constructed handle of that form does.  After reset() the handle is
\* null and the unit it held is released exactly once, the pointee destroyed
\* iff that was its last unit; after reset(p) and reset(p, add_ref) with
\* non-null p the handle holds p, p's counter was incremented once iff
\* add_ref, and the unit held before is released exactly once.
C19_Reset ==
    \A h \in Handles : (~crashed /\ alive[h]) =>
        /\ reset0(Cur, h) = Retargeted(h, NULL, 0, ptr[h])
        /\ \A f \in FreeFor(Cur, h) \ {g \in Handles : IsY(g) # IsY(h)} :
            reset0(Cur, h) = AssignFresh(ctor_default(Cur, f), h, f)
        /\ \A p \in Addr : Fits(h, p) =>
            /\ RawOk(p, TRUE) =>
                /\ reset1(Cur, h, p, "benign") = Retargeted(h, p, 1, ptr[h])
                /\ reset2(Cur, h, p, TRUE, "benign") = Retargeted(h, p, 1, ptr[h])
            /\ RawOk(p, FALSE) =>
                reset2(Cur, h, p, FALSE, "benign") = Retargeted(h, p, 0, ptr[h])
            /\ \A f \in FreeFor(Cur, h) \ {g \in Handles : IsY(g) # IsY(h)} :
                /\ RawOk(p, TRUE) =>
                    /\ reset1(Cur, h, p, "benign") =
                        AssignFresh(ctor_raw(Cur, f, p, TRUE, "benign"), h, f)
                    /\ reset2(Cur, h, p, TRUE, "benign") =
                        AssignFresh(ctor_raw(Cur, f, p, TRUE, "benign"), h, f)
                /\ RawOk(p, FALSE) =>
                    reset2(Cur, h, p, FALSE, "benign") =
                        AssignFresh(ctor_raw(Cur, f, p, FALSE, "benign"), h, f)

\* C19 witness: h holds the last unit of an object, a slot of its type is
\* free for the fresh handle, and another object has a unit to adopt: reset()
\* destroys h's pointee, and so do reset(p) and reset(p, false) to the other
\* object, which then has counter 2 and 1.
C19_Witness ==
    \E h \in Handles, p \in Addr :
        /\ ~crashed /\ alive[h] /\ ptr[h] # NULL /\ ptr[h] # p
        /\ ref_count[ptr[h]] = 1 /\ deleted[ptr[h]] = 0
        /\ Fits(h, p) /\ RawOk(p, FALSE) /\ ref_count[p] = 1
        /\ \E f \in FreeFor(Cur, h) : IsY(f) = IsY(h)
        /\ reset0(Cur, h).deleted[ptr[h]] = 1
        /\ reset1(Cur, h, p, "benign").ref_count[p] = 2
        /\ reset2(Cur, h, p, FALSE, "benign").ref_count[p] = 1
        /\ reset2(Cur, h, p, FALSE, "benign").deleted[ptr[h]] = 1

====
